---------------------------- MODULE Spec2Model ----------------------------
(***************************************************************************)
(* Model of weinstein_screener.py: the weekly aggregation (to_weekly), the *)
(* indicator derivation (compute_indicators), the Stage 2 rule             *)
(* (is_weinstein_buy) and the batch loop, ranking and saving of            *)
(* run_screener.                                                           *)
(*                                                                         *)
(* Numbers.  A pandas cell is a float that may be NaN.  A cell is modelled *)
(* as an exact fraction <<n, d>> with d > 0, and NaN as the empty tuple,   *)
(* so that every mean, difference, ratio and comparison of the code is     *)
(* computed exactly (binary rounding of float64 is not modelled).          *)
(* A Python None is the empty tuple and a present value v is <<v>>.        *)
(***************************************************************************)
EXTENDS Integers, Sequences, FiniteSets, TLC

(***************************************************************************)
(* CONFIG, lines 37-46 of the source.                                      *)
(***************************************************************************)
SMA_WEEKS == 30

BASE_LOOKBACK_WEEKS == 20

VOL_AVG_WEEKS == 30

\* 1.5 as an exact fraction
VOL_MULTIPLIER == <<3, 2>>

RS_REQUIRED == TRUE

RS_LOOKBACK == 8

BATCH_SIZE == 50

(***************************************************************************)
(* Float cells: what pandas/numpy do with NaN in arithmetic (it            *)
(* propagates) and in comparisons (every ordered comparison with NaN is    *)
(* False).                                                                 *)
(***************************************************************************)
NaN == <<>>

None == <<>>

isna(x) == x = NaN

Float(i) == <<i, 1>>

FAdd(x, y) ==
    IF isna(x) \/ isna(y) THEN NaN
    ELSE <<x[1] * y[2] + y[1] * x[2], x[2] * y[2]>>

FSub(x, y) ==
    IF isna(x) \/ isna(y) THEN NaN
    ELSE <<x[1] * y[2] - y[1] * x[2], x[2] * y[2]>>

FMul(x, y) ==
    IF isna(x) \/ isna(y) THEN NaN
    ELSE <<x[1] * y[1], x[2] * y[2]>>

\* x / y for a y that is not zero (prices are positive)
FDiv(x, y) ==
    IF isna(x) \/ isna(y) THEN NaN
    ELSE IF y[1] > 0 THEN <<x[1] * y[2], x[2] * y[1]>>
    ELSE <<(0 - x[1]) * y[2], x[2] * (0 - y[1])>>

\* the operator > of two cells
FGt(x, y) == ~isna(x) /\ ~isna(y) /\ x[1] * y[2] > y[1] * x[2]

FEq(x, y) == ~isna(x) /\ ~isna(y) /\ x[1] * y[2] = y[1] * x[2]

Max2(a, b) == IF a > b THEN a ELSE b

(***************************************************************************)
(* Column helpers.  A frame is a sequence of rows; a row is a record whose *)
(* field "date" is the index and whose other fields are float cells.       *)
(***************************************************************************)
\* Series.rolling(window).mean() at row t (min_periods = window)
\* the sum of the cells lo..hi of a column, by halves
RECURSIVE WindowSum(_, _, _, _)
WindowSum(df, col, lo, hi) ==
    IF lo > hi THEN Float(0)
    ELSE IF lo = hi THEN df[lo][col]
    ELSE LET mid == (lo + hi) \div 2
         IN  FAdd(WindowSum(df, col, lo, mid), WindowSum(df, col, mid + 1, hi))

\* mutant: rolling(window, min_periods=1)
RollingMean_min_periods_1(df, col, window, t) ==
    LET lo == Max2(1, t - window + 1)
        s  == WindowSum(df, col, lo, t)
    IN  IF isna(s) THEN NaN ELSE <<s[1], s[2] * (t - lo + 1)>>

RollingMean(df, col, window, t) ==
    IF t < window THEN NaN
    ELSE LET s == WindowSum(df, col, t - window + 1, t)
         IN  IF isna(s) THEN NaN ELSE <<s[1], s[2] * window>>

\* Series.diff(periods) at row t of the series s (a function on 1..n)
Diff(s, periods, t) ==
    IF t - periods < 1 THEN NaN ELSE FSub(s[t], s[t - periods])

\* Series.max() over rows lo..hi: NaN cells are skipped, NaN when none is left
FMax(x, y) == IF isna(x) THEN y ELSE IF isna(y) THEN x
              ELSE IF FGt(y, x) THEN y ELSE x

FMin(x, y) == IF isna(x) THEN y ELSE IF isna(y) THEN x
              ELSE IF FGt(x, y) THEN y ELSE x

RECURSIVE ColMax(_, _, _, _)
ColMax(df, col, lo, hi) ==
    IF lo > hi THEN NaN
    ELSE IF lo = hi THEN df[lo][col]
    ELSE LET mid == (lo + hi) \div 2
         IN  FMax(ColMax(df, col, lo, mid), ColMax(df, col, mid + 1, hi))

\* benchmark_weekly['Close'].reindex(w.index): the benchmark's close on the
\* date of row t of w, NaN when the benchmark has no bar on that date
Reindex(bench, w, t) ==
    IF \E k \in 1..Len(bench) : bench[k].date = w[t].date
    THEN bench[CHOOSE k \in 1..Len(bench) : bench[k].date = w[t].date].Close
    ELSE NaN

\* the last of the rows lo..hi of the series s whose value is not NaN, 0
\* when there is none (the later half is searched first)
RECURSIVE LastValid(_, _, _)
LastValid(s, lo, hi) ==
    IF lo > hi THEN 0
    ELSE IF lo = hi THEN (IF isna(s[lo]) THEN 0 ELSE lo)
    ELSE LET mid   == (lo + hi) \div 2
             later == LastValid(s, mid + 1, hi)
         IN  IF later # 0 THEN later ELSE LastValid(s, lo, mid)

\* Series.ffill() at row t of the series s: the value of the last row <= t
\* that is not NaN, NaN when there is none
Ffill(s, t) ==
    LET u == LastValid(s, 1, t)
    IN  IF u = 0 THEN NaN ELSE s[u]

(***************************************************************************)
(* to_weekly(df_daily), lines 77-80.  A date is a day number; day 0 is a   *)
(* Monday, so the weekday of d is d % 7 with Friday = 4.                   *)
(***************************************************************************)
FRIDAY == 4

\* 'W-FRI': the label of the bin of day d is the first Friday on or after d
WeekEnd(d) == d + ((FRIDAY + 7 - (d % 7)) % 7)

OHLC == {"Open", "High", "Low", "Close"}

\* the labels resample makes: every Friday from the first row's week to the
\* last row's week, with or without rows in it
BinLabels(df) ==
    IF Len(df) = 0 THEN <<>>
    ELSE LET lo == WeekEnd(df[1].date)
             hi == WeekEnd(df[Len(df)].date)
         IN  [b \in 1..((hi - lo) \div 7 + 1) |-> lo + 7 * (b - 1)]

RowsOfBin(df, label) == SelectSeq(df, LAMBDA r : WeekEnd(r.date) = label)

\* 'first' / 'last': the first / last cell that is not NaN, NaN when none
RECURSIVE AggFirst(_, _, _)
AggFirst(rows, col, t) ==
    IF t > Len(rows) THEN NaN
    ELSE IF isna(rows[t][col]) THEN AggFirst(rows, col, t + 1)
    ELSE rows[t][col]

RECURSIVE AggLast(_, _, _)
AggLast(rows, col, t) ==
    IF t < 1 THEN NaN
    ELSE IF isna(rows[t][col]) THEN AggLast(rows, col, t - 1)
    ELSE rows[t][col]

\* 'min': NaN cells are skipped, NaN when none is left
RECURSIVE ColMin(_, _, _, _)
ColMin(df, col, lo, hi) ==
    IF lo > hi THEN NaN
    ELSE IF lo = hi THEN df[lo][col]
    ELSE LET mid == (lo + hi) \div 2
         IN  FMin(ColMin(df, col, lo, mid), ColMin(df, col, mid + 1, hi))

\* 'sum': NaN cells are skipped, 0 when none is left
RECURSIVE AggSum(_, _, _)
AggSum(rows, col, t) ==
    IF t < 1 THEN Float(0)
    ELSE IF isna(rows[t][col]) THEN AggSum(rows, col, t - 1)
    ELSE FAdd(AggSum(rows, col, t - 1), rows[t][col])

\* line 78
Resample(df) ==
    LET labels == BinLabels(df)
    IN  [b \in 1..Len(labels) |->
           LET rows == RowsOfBin(df, labels[b])
           IN  [date   |-> labels[b],
                Open   |-> AggFirst(rows, "Open", 1),
                High   |-> ColMax(rows, "High", 1, Len(rows)),
                Low    |-> ColMin(rows, "Low", 1, Len(rows)),
                Close  |-> AggLast(rows, "Close", Len(rows)),
                Volume |-> AggSum(rows, "Volume", Len(rows))]]

\* line 79: DataFrame.dropna() drops every row with a NaN cell
HasNaN(r) == \E col \in OHLC \cup {"Volume"} : isna(r[col])

\* mutant: line 79 left out
dropna_missing(df) == df

dropna(df) == SelectSeq(df, LAMBDA r : ~HasNaN(r))

to_weekly(df_daily) == dropna(Resample(df_daily))

(***************************************************************************)
(* compute_indicators(weekly, benchmark_weekly=None), lines 83-94.         *)
(* benchmark_weekly is None or <<frame>>.  The result is the frame w with  *)
(* its columns; the RS columns exist only when a benchmark was given.      *)
(***************************************************************************)
BaseColumns ==
    {"Open", "High", "Low", "Close", "Volume",
     "SMA30", "SMA30_slope", "avg_vol30", "vol_spike"}

RSColumns == {"B_Close", "RS", "RS_slope"}

\* mutant: >= in the place of > at line 88
VolSpike_ge(volume, avg_vol30) ==
    LET limit == FMul(VOL_MULTIPLIER, avg_vol30)
    IN  FGt(volume, limit) \/ FEq(volume, limit)

\* line 88
VolSpike(volume, avg_vol30) == FGt(volume, FMul(VOL_MULTIPLIER, avg_vol30))

\* line 90: reindex on the instrument's dates first, forward-fill after
AlignBenchmark(bench, w, t) ==
    Ffill([u \in 1..Len(w) |-> Reindex(bench, w, u)], t)

compute_indicators(weekly, benchmark_weekly) ==
    LET n     == Len(weekly)
        SMA30 == [t \in 1..n |-> RollingMean(weekly, "Close", SMA_WEEKS, t)]
        avg   == [t \in 1..n |-> RollingMean(weekly, "Volume", VOL_AVG_WEEKS, t)]
        b     == [t \in 1..n |-> AlignBenchmark(benchmark_weekly[1], weekly, t)]
        RS    == [t \in 1..n |-> FDiv(weekly[t].Close, b[t])]
        \* lines 84-88: w = weekly.copy() and the four columns added to it
        w     == [t \in 1..n |->
                    [SMA30       |-> SMA30[t],
                     SMA30_slope |-> Diff(SMA30, 1, t),
                     avg_vol30   |-> avg[t],
                     vol_spike   |-> VolSpike(weekly[t].Volume, avg[t])]
                    @@ weekly[t]]
    IN  IF benchmark_weekly = None
        THEN [columns |-> BaseColumns, rows |-> w]
        ELSE \* lines 90-93
             [columns |-> BaseColumns \cup RSColumns,
              rows    |-> [t \in 1..n |->
                            [B_Close  |-> b[t],
                             RS       |-> RS[t],
                             RS_slope |-> Diff(RS, RS_LOOKBACK, t)]
                            @@ w[t]]]

(***************************************************************************)
(* is_weinstein_buy(weekly_ind), lines 97-128.  The result is              *)
(* [raised, meets, details]: raised is TRUE when the call ends in an       *)
(* exception (iloc[-1] of an empty frame is an IndexError), details is     *)
(* None or <<the dictionary>>.                                             *)
(***************************************************************************)
MinRows == SMA_WEEKS + BASE_LOOKBACK_WEEKS

\* last.get(col, np.nan)
Get(ind, last, col) == IF col \in ind.columns THEN last[col] ELSE NaN

\* mutant: the slice runs to the last row, iloc[-(BASE_LOOKBACK_WEEKS+1):]
PriorHigh_with_last(rows) ==
    ColMax(rows, "Close", Max2(1, Len(rows) - BASE_LOOKBACK_WEEKS), Len(rows))

\* weekly_ind['Close'].iloc[-(BASE_LOOKBACK_WEEKS+1):-1].max()
PriorHigh(rows) ==
    ColMax(rows, "Close", Max2(1, Len(rows) - BASE_LOOKBACK_WEEKS), Len(rows) - 1)

\* mutant: the bound of line 101 one too small
TooShort_off_by_one(rows) == Len(rows) < MinRows - 1

\* line 101: not enough rows for a decision
TooShort(rows) == Len(rows) < MinRows

\* mutant: line 113 without its isna test, written as "not (slope <= 0)"
CondRS_nan_passes(ind, last) ==
    IF "RS_slope" \in ind.columns /\ RS_REQUIRED
    THEN isna(last.RS_slope) \/ FGt(last.RS_slope, Float(0))
    ELSE TRUE

\* lines 111-113
CondRS(ind, last) ==
    IF "RS_slope" \in ind.columns /\ RS_REQUIRED
    THEN ~isna(last.RS_slope) /\ FGt(last.RS_slope, Float(0))
    ELSE TRUE

\* line 110
CondVol(last) == ~isna(last.avg_vol30) /\ last.vol_spike

\* mutant: the dictionary is returned only with a passing decision
Returned_details_on_pass(meets, details) ==
    [raised |-> FALSE, meets |-> meets,
     details |-> IF meets THEN <<details>> ELSE None]

\* line 128: the pair returned after the conditions were evaluated
Returned(meets, details) ==
    [raised |-> FALSE, meets |-> meets, details |-> <<details>>]

Evaluate(ind) ==
    LET rows == ind.rows
        n    == Len(rows)
    IN  IF n = 0
        THEN [raised |-> TRUE, meets |-> FALSE, details |-> None]
        ELSE LET last           == rows[n]
                 prior_high     == PriorHigh(rows)
                 cond_breakout  == FGt(last.Close, prior_high)
                 cond_above_sma == ~isna(last.SMA30) /\ FGt(last.Close, last.SMA30)
                 cond_sma_up    == ~isna(last.SMA30_slope)
                                   /\ FGt(last.SMA30_slope, Float(0))
                 cond_vol       == CondVol(last)
                 cond_rs        == CondRS(ind, last)
                 details        ==
                     [close       |-> last.Close,
                      prior_high  |-> prior_high,
                      SMA30       |-> last.SMA30,
                      SMA30_slope |-> last.SMA30_slope,
                      vol         |-> last.Volume,
                      avg_vol30   |-> last.avg_vol30,
                      vol_spike   |-> last.vol_spike,
                      RS          |-> Get(ind, last, "RS"),
                      RS_slope    |-> Get(ind, last, "RS_slope")]
                 meets          == cond_breakout /\ cond_above_sma /\ cond_sma_up
                                   /\ cond_vol /\ cond_rs
             IN  Returned(meets, details)

is_weinstein_buy(weekly_ind) ==
    IF TooShort(weekly_ind.rows)
    THEN [raised |-> FALSE, meets |-> FALSE, details |-> None]
    ELSE Evaluate(weekly_ind)

(***************************************************************************)
(* run_screener's ranking, lines 212-215.                                  *)
(* df_cand["market_cap"] = pd.Series(market_caps) turns a None into NaN;   *)
(* sort_values(by="market_cap", ascending=False) keeps the NaN rows last   *)
(* (na_position='last') and orders the others by decreasing value.  The    *)
(* order it gives to equal values is not fixed by pandas; the model keeps  *)
(* them in their order of collection.                                      *)
(***************************************************************************)
\* the cell of a dictionary value: None becomes NaN
CapCell(cap) == IF cap = None THEN NaN ELSE Float(cap[1])

\* r goes before the first row with a strictly smaller key
RECURSIVE InsertDesc(_, _, _)
InsertDesc(r, sorted, col) ==
    IF sorted = <<>> THEN <<r>>
    ELSE IF FGt(r[col], Head(sorted)[col]) THEN <<r>> \o sorted
    ELSE <<Head(sorted)>> \o InsertDesc(r, Tail(sorted), col)

RECURSIVE SortDesc(_, _, _)
SortDesc(df, col, t) ==
    IF t < 1 THEN <<>>
    ELSE InsertDesc(df[t], SortDesc(df, col, t - 1), col)

\* mutant: ascending=True
sort_values_ascending(df, col) ==
    LET known   == SelectSeq(df, LAMBDA r : ~isna(r[col]))
        unknown == SelectSeq(df, LAMBDA r : isna(r[col]))
        desc    == SortDesc(known, col, Len(known))
    IN  [j \in 1..Len(desc) |-> desc[Len(desc) + 1 - j]] \o unknown

sort_values(df, col) ==
    LET known   == SelectSeq(df, LAMBDA r : ~isna(r[col]))
        unknown == SelectSeq(df, LAMBDA r : isna(r[col]))
    IN  SortDesc(known, col, Len(known)) \o unknown

(***************************************************************************)
(* State.                                                                  *)
(***************************************************************************)
VARIABLES
    \* to_weekly on its own
    wpc,               \* "input", "done" or "idle"
    df_daily,          \* the daily frame handed to to_weekly
    agg,               \* the frame to_weekly returned
    \* compute_indicators and is_weinstein_buy on their own
    epc,               \* "input", "indicators", "decided" or "idle"
    weekly,            \* the instrument's weekly frame
    benchmark_weekly,  \* None or <<the benchmark's weekly frame>>
    weekly_ind,        \* the frame compute_indicators returned
    result,            \* what is_weinstein_buy returned
    \* run_screener
    pc,                \* position in run_screener
    market,            \* what the data provider holds for each ticker
    tickers,           \* line 135
    spy_weekly,        \* line 150: None until the benchmark is there
    i,                 \* line 153: start of the current batch
    data,              \* line 157/160: what the batch download gave
    k,                 \* line 165: position in the batch (from 1)
    candidates,        \* line 139
    visits,            \* how often the loop body ran for each ticker
    skipped,           \* tickers logged at lines 182 and 195
    passed,            \* tickers for which line 188 returned meets = True
    market_caps,       \* line 203
    cap_failed,        \* tickers logged at line 209
    csv                \* None, or <<the table written at line 218>>

wvars == <<wpc, df_daily, agg>>

evars == <<epc, weekly, benchmark_weekly, weekly_ind, result>>

rvars == <<pc, market, tickers, spy_weekly, i, data, k, candidates, visits,
           skipped, passed, market_caps, cap_failed, csv>>

vars == <<wvars, evars, rvars>>

NoFrame == [columns |-> {}, rows |-> <<>>]

NoResult == [raised |-> FALSE, meets |-> FALSE, details |-> None]

WeeklyIdle == wpc = "idle" /\ df_daily = <<>> /\ agg = <<>>

EvalIdle ==
    /\ epc = "idle"
    /\ weekly = <<>>
    /\ benchmark_weekly = None
    /\ weekly_ind = NoFrame
    /\ result = NoResult

RunIdle ==
    /\ pc = "idle"
    /\ market = <<>>
    /\ tickers = <<>>
    /\ spy_weekly = None
    /\ i = 0
    /\ data = None
    /\ k = 0
    /\ candidates = <<>>
    /\ visits = <<>>
    /\ skipped = {}
    /\ passed = {}
    /\ market_caps = <<>>
    /\ cap_failed = {}
    /\ csv = None

(***************************************************************************)
(* to_weekly applied to daily frames: ascending, unique dates; a cell the  *)
(* provider does not have is NaN.                                          *)
(***************************************************************************)
MaxDay == 18

MaxDaily == 3

\* Mondays, Fridays and Saturdays: the first day, the last day and the day
\* after the last day of a Friday-ending week
Days == {d \in 0..MaxDay : d % 7 \in {0, FRIDAY, FRIDAY + 1}}

Cell(x) == IF x = 0 THEN NaN ELSE Float(x)

\* open, high, low, close, volume; 0 stands for a missing cell
DailyQuotes ==
    {<<1, 3, 1, 2, 1>>, <<2, 4, 2, 3, 2>>, <<0, 0, 0, 0, 0>>, <<1, 2, 1, 0, 1>>}

DailyBar(d, q) ==
    [date |-> d, Open |-> Cell(q[1]), High |-> Cell(q[2]), Low |-> Cell(q[3]),
     Close |-> Cell(q[4]), Volume |-> Cell(q[5])]

InitWeekly ==
    /\ wpc = "input"
    /\ df_daily = <<>>
    /\ agg = <<>>
    /\ EvalIdle
    /\ RunIdle

\* the provider's next daily row
AppendDaily ==
    /\ wpc = "input"
    /\ Len(df_daily) < MaxDaily
    /\ \E d \in Days, q \in DailyQuotes :
         /\ Len(df_daily) > 0 => d > df_daily[Len(df_daily)].date
         /\ df_daily' = Append(df_daily, DailyBar(d, q))
    /\ UNCHANGED <<wpc, agg, evars, rvars>>

\* lines 150 and 186
ToWeekly ==
    /\ wpc = "input"
    /\ agg' = to_weekly(df_daily)
    /\ wpc' = "done"
    /\ UNCHANGED <<df_daily, evars, rvars>>

NextWeekly == AppendDaily \/ ToWeekly

SpecWeekly == InitWeekly /\ [][NextWeekly]_vars

(***************************************************************************)
(* compute_indicators and is_weinstein_buy applied to weekly frames as     *)
(* to_weekly returns them (dates strictly increasing, no NaN cell).        *)
(***************************************************************************)
MaxWeeks == 51

MaxAlignWeeks == 4

Bar(d, close, volume) ==
    [date |-> d, Open |-> Float(close), High |-> Float(close),
     Low |-> Float(close), Close |-> Float(close), Volume |-> Float(volume)]

\* a column of n rows: lastv on the last row, recent on the k-1 rows before
\* it, old on every earlier row
Level(n, w, old, recent, lastv, t) ==
    IF t = n THEN lastv ELSE IF n - t < w THEN recent ELSE old

Offsets ==
    {1, RS_LOOKBACK, RS_LOOKBACK + 1, BASE_LOOKBACK_WEEKS,
     BASE_LOOKBACK_WEEKS + 1, SMA_WEEKS - 1, SMA_WEEKS, SMA_WEEKS + 1}

CloseLevels == {1, 2, 3}

VolumeLevels == {0, 1, 2, 3}

\* the volume of every row before the last one, and of the last one
VolumePairs == {<<2, 2>>, <<2, 4>>, <<0, 0>>}

\* price patterns, with a volume that is flat up to the last row
PriceFrames ==
    { [t \in 1..n |->
         Bar(t, Level(n, w, c[1], c[2], c[3], t), Level(n, 1, v[1], v[1], v[2], t))] :
      n \in {MinRows, MaxWeeks}, w \in Offsets,
      c \in CloseLevels \X CloseLevels \X CloseLevels, v \in VolumePairs }

\* volume patterns, with a flat price
VolumeFrames ==
    { [t \in 1..n |-> Bar(t, 2, Level(n, w, v[1], v[2], v[3], t))] :
      n \in {VOL_AVG_WEEKS - 1, VOL_AVG_WEEKS, MinRows}, w \in Offsets,
      v \in VolumeLevels \X VolumeLevels \X VolumeLevels }

\* frames too short for a decision
ShortFrames ==
    { [t \in 1..n |-> Bar(t, t, 2)] : n \in {0, 1, MinRows - 1} }

BenchBar(d, close) == [date |-> d, Close |-> Float(close)]

\* benchmarks over the weeks 1..n: none, flat, rising in the last weeks, or
\* with no bar before the last weeks
Benchmarks(n) ==
    { None,
      <<[t \in 1..n |-> BenchBar(t, 1)]>>,
      <<[t \in 1..n |-> BenchBar(t, Level(n, 4, 1, 3, 3, t))]>>,
      <<[t \in 1..4 |-> BenchBar(n - 4 + t, 1)]>> }

\* the strictly increasing sequences of weeks 1..MaxAlignWeeks
WeekLists ==
    { s \in UNION { [1..m -> 1..MaxAlignWeeks] : m \in 0..MaxAlignWeeks } :
        \A a \in 1..Len(s), b \in 1..Len(s) : a < b => s[a] < s[b] }

\* calendars that differ: the instrument and the benchmark each trade in
\* some of the weeks; the benchmark's close in week d is d
AlignFrames == { [t \in 1..Len(s) |-> Bar(s[t], 2, 2)] : s \in WeekLists }

AlignBenchmarks ==
    { <<[t \in 1..Len(s) |-> BenchBar(s[t], s[t])]>> : s \in WeekLists }

InitEval ==
    /\ epc = "input"
    /\ \/ /\ weekly \in PriceFrames \cup ShortFrames
          /\ benchmark_weekly \in Benchmarks(Len(weekly))
       \/ /\ weekly \in VolumeFrames
          /\ benchmark_weekly = <<[t \in 1..Len(weekly) |-> BenchBar(t, 1)]>>
       \/ /\ weekly \in AlignFrames
          /\ benchmark_weekly \in AlignBenchmarks
    /\ weekly_ind = NoFrame
    /\ result = NoResult
    /\ WeeklyIdle
    /\ RunIdle

\* line 187
ComputeIndicators ==
    /\ epc = "input"
    /\ weekly_ind' = compute_indicators(weekly, benchmark_weekly)
    /\ epc' = "indicators"
    /\ UNCHANGED <<weekly, benchmark_weekly, result, wvars, rvars>>

\* line 188
IsWeinsteinBuy ==
    /\ epc = "indicators"
    /\ result' = is_weinstein_buy(weekly_ind)
    /\ epc' = "decided"
    /\ UNCHANGED <<weekly, benchmark_weekly, weekly_ind, wvars, rvars>>

NextEval == ComputeIndicators \/ IsWeinsteinBuy

SpecEval == InitEval /\ [][NextEval]_vars

(***************************************************************************)
(* run_screener, lines 134-223.                                            *)
(*                                                                         *)
(* The data provider (yfinance) is the environment.  For each ticker it    *)
(* holds a daily frame that passes the rule, one that fails it, one too    *)
(* short for a decision, an empty frame, or it raises on every request for *)
(* that ticker.                                                            *)
(***************************************************************************)
NumTickers == 51

MaxCap == 2

Kinds == {"pass", "fail", "short", "nodata", "raises"}

\* two daily rows (Monday and Friday) in each of the weeks 0..weeks-1, with
\* the quote (close, volume) "before" in every week but the last, "final" there
TwoDaysAWeek(weeks, before, final) ==
    [t \in 1..(2 * weeks) |->
       LET w == (t - 1) \div 2
           q == IF w = weeks - 1 THEN final ELSE before
       IN  [date   |-> 7 * w + (IF t % 2 = 1 THEN 0 ELSE FRIDAY),
            Open   |-> Float(q[1]), High |-> Float(q[1]), Low |-> Float(q[1]),
            Close  |-> Float(q[1]), Volume |-> Float(q[2])]]

SpyDaily == TwoDaysAWeek(MinRows, <<1, 1>>, <<1, 1>>)

ProviderDaily ==
    [pass   |-> TwoDaysAWeek(MinRows, <<1, 1>>, <<3, 4>>),
     fail   |-> TwoDaysAWeek(MinRows, <<1, 1>>, <<1, 1>>),
     short  |-> TwoDaysAWeek(3, <<1, 1>>, <<3, 4>>),
     nodata |-> <<>>,
     raises |-> <<>>]

\* lines 185-188 for one daily frame
Screen(daily, spy) ==
    is_weinstein_buy(compute_indicators(to_weekly(daily), spy))

\* tickers whose frame varies from run to run: the first and the last of
\* each batch
Probes == {1, BATCH_SIZE, BATCH_SIZE + 1, NumTickers} \cap (1..NumTickers)

DefaultKind(t) ==
    CASE t % 4 = 0 -> "fail"
      [] t % 4 = 1 -> "short"
      [] t % 4 = 2 -> "nodata"
      [] OTHER     -> "raises"

Markets ==
    { [t \in 1..NumTickers |-> IF t \in P THEN "pass" ELSE DefaultKind(t)] :
      P \in SUBSET Probes }

\* tickers[i:i+BATCH_SIZE], line 154
Batch(all, start) ==
    SubSeq(all, start + 1,
           IF start + BATCH_SIZE < Len(all) THEN start + BATCH_SIZE ELSE Len(all))

\* mutant: no try/except around the loop body (lines 166, 194-195)
OnProcessingError_uncaught == "raise"

\* lines 194-195: the exception is logged and the loop goes on
OnProcessingError == "continue"

InitRun ==
    /\ pc = "start"
    /\ market \in Markets
    /\ tickers = <<>>
    /\ spy_weekly = None
    /\ i = 0
    /\ data = None
    /\ k = 0
    /\ candidates = <<>>
    /\ visits = <<>>
    /\ skipped = {}
    /\ passed = {}
    /\ market_caps = <<>>
    /\ cap_failed = {}
    /\ csv = None
    /\ WeeklyIdle
    /\ EvalIdle

\* line 135: the list is fetched, or the request raises and the run ends
FetchTickers ==
    /\ pc = "start"
    /\ \/ /\ tickers' = [t \in 1..NumTickers |-> t]
          /\ visits' = [t \in 1..NumTickers |-> 0]
          /\ pc' = "benchmark"
       \/ /\ pc' = "abort"
          /\ UNCHANGED <<tickers, visits>>
    /\ UNCHANGED <<market, spy_weekly, i, data, k, candidates, skipped, passed,
                   market_caps, cap_failed, csv, wvars, evars>>

\* lines 143-150: the benchmark is downloaded and aggregated, or the
\* download raises and the run ends.  Line 153 opens the loop.
DownloadBenchmark ==
    /\ pc = "benchmark"
    /\ \/ /\ spy_weekly' = <<to_weekly(SpyDaily)>>
          /\ i' = 0
          /\ pc' = IF 0 < Len(tickers) THEN "batch" ELSE "save"
       \/ /\ pc' = "abort"
          /\ UNCHANGED <<spy_weekly, i>>
    /\ UNCHANGED <<market, tickers, data, k, candidates, visits, skipped, passed,
                   market_caps, cap_failed, csv, wvars, evars>>

\* lines 154-163: the batch download raises (data = None), or gives a frame
\* with a column group for each ticker it could load (some may be missing),
\* or, for a batch of one ticker, a frame without ticker level
DownloadBatch ==
    /\ pc = "batch"
    /\ LET batch   == Batch(tickers, i)
           members == {batch[j] : j \in 1..Len(batch)}
           loaded  == {t \in members : market[t] # "raises"}
       IN  \/ data' = None
           \/ data' = <<[flat |-> FALSE, has |-> loaded]>>
           \/ data' = <<[flat |-> FALSE, has |-> loaded \ Probes]>>
           \/ /\ Len(batch) = 1
              /\ data' = <<[flat |-> TRUE, has |-> {}]>>
    /\ k' = 1
    /\ pc' = "ticker"
    /\ UNCHANGED <<market, tickers, spy_weekly, i, candidates, visits, skipped, passed,
                   market_caps, cap_failed, csv, wvars, evars>>

\* lines 167-179: where df_daily comes from
Source(t) ==
    IF data = None THEN "download"
    ELSE IF data[1].flat THEN "frame"
    ELSE IF t \in data[1].has THEN "column"
    ELSE "download"

\* lines 165-195: the loop body for the ticker at position k of the batch,
\* then the step of the two loops
ProcessTicker ==
    /\ pc = "ticker"
    /\ LET batch  == Batch(tickers, i)
           t      == batch[k]
           kind   == market[t]
           raises == Source(t) = "download" /\ kind = "raises"
           empty  == ~raises /\ ProviderDaily[kind] = <<>>
           r      == Screen(ProviderDaily[kind], spy_weekly)
           last   == k = Len(batch)
       IN  /\ visits' = [visits EXCEPT ![t] = @ + 1]
           /\ IF raises /\ OnProcessingError = "raise"
              THEN /\ pc' = "abort"
                   /\ UNCHANGED <<i, k, candidates, skipped, passed>>
              ELSE /\ skipped' = IF raises \/ empty THEN skipped \cup {t}
                                 ELSE skipped
                   /\ passed' = IF ~raises /\ ~empty /\ r.meets
                                THEN passed \cup {t} ELSE passed
                   /\ candidates' =
                        IF ~raises /\ ~empty /\ r.meets
                        THEN Append(candidates, [ticker |-> t] @@ r.details[1])
                        ELSE candidates
                   /\ k' = IF last THEN k ELSE k + 1
                   /\ i' = IF last THEN i + BATCH_SIZE ELSE i
                   /\ pc' = IF ~last THEN "ticker"
                            ELSE IF i + BATCH_SIZE < Len(tickers) THEN "batch"
                            ELSE "save"
    /\ UNCHANGED <<market, tickers, spy_weekly, data, market_caps, cap_failed,
                   csv, wvars, evars>>

\* lines 199-203
BuildTable ==
    /\ pc = "save"
    /\ candidates # <<>>
    /\ k' = 1
    /\ pc' = "caps"
    /\ UNCHANGED <<market, tickers, spy_weekly, i, data, candidates, visits,
                   skipped, passed, market_caps, cap_failed, csv, wvars, evars>>

\* lines 220-223
NoCandidates ==
    /\ pc = "save"
    /\ candidates = <<>>
    /\ pc' = "done"
    /\ UNCHANGED <<market, tickers, spy_weekly, i, data, k, candidates, visits,
                   skipped, passed, market_caps, cap_failed, csv, wvars, evars>>

\* lines 204-210: the lookup gives a capitalization, gives none, or raises
FetchMarketCap ==
    /\ pc = "caps"
    /\ LET t == candidates[k].ticker
       IN  \/ /\ \E cap \in {None} \cup {<<c>> : c \in 1..MaxCap} :
                   market_caps' = (t :> cap) @@ market_caps
              /\ UNCHANGED cap_failed
           \/ /\ market_caps' = (t :> None) @@ market_caps
              /\ cap_failed' = cap_failed \cup {t}
    /\ k' = IF k = Len(candidates) THEN k ELSE k + 1
    /\ pc' = IF k = Len(candidates) THEN "sort" ELSE "caps"
    /\ UNCHANGED <<market, tickers, spy_weekly, i, data, candidates, visits,
                   skipped, passed, csv, wvars, evars>>

\* lines 212-219 and 223
SortAndSave ==
    /\ pc = "sort"
    /\ LET df_cand == [j \in 1..Len(candidates) |->
                         [market_cap |->
                            CapCell(market_caps[candidates[j].ticker])]
                         @@ candidates[j]]
       IN  csv' = <<sort_values(df_cand, "market_cap")>>
    /\ pc' = "done"
    /\ UNCHANGED <<market, tickers, spy_weekly, i, data, k, candidates, visits,
                   skipped, passed, market_caps, cap_failed, wvars, evars>>

NextRun ==
    \/ FetchTickers
    \/ DownloadBenchmark
    \/ DownloadBatch
    \/ ProcessTicker
    \/ BuildTable
    \/ NoCandidates
    \/ FetchMarketCap
    \/ SortAndSave

SpecRun == InitRun /\ [][NextRun]_vars

(***************************************************************************)
(* Claims.                                                                 *)
(***************************************************************************)
\* the rows of df_daily that fall in the week ending on label
DaysOfWeek(label) ==
    {t \in 1..Len(df_daily) : WeekEnd(df_daily[t].date) = label}

\* those of them with a value in column col
Valued(label, col) == {t \in DaysOfWeek(label) : ~isna(df_daily[t][col])}

WeeksWithBars == {WeekEnd(df_daily[t].date) : t \in 1..Len(df_daily)}

\* weeks in which each of open, high, low, close has a value on some day
CompleteWeeks ==
    {label \in WeeksWithBars : \A col \in OHLC : Valued(label, col) # {}}

RECURSIVE VolumeOf(_)
VolumeOf(T) ==
    IF T = {} THEN Float(0)
    ELSE LET t == CHOOSE u \in T : TRUE
         IN  FAdd(df_daily[t].Volume, VolumeOf(T \ {t}))

AggDatesIncrease ==
    \A a \in 1..Len(agg), b \in 1..Len(agg) : a < b => agg[a].date < agg[b].date

\* C8 as stated: one weekly bar for each Friday-ending week that holds a
\* daily bar and none for any other week; its open is the first daily open,
\* its high the largest daily high, its low the smallest daily low, its
\* close the last daily close, its volume the sum of the daily volumes; the
\* week-end dates strictly increase.
C8_OneBarPerTradedWeek ==
    wpc = "done" =>
      /\ {agg[b].date : b \in 1..Len(agg)} = WeeksWithBars
      /\ Len(agg) = Cardinality(WeeksWithBars)
      /\ AggDatesIncrease
      /\ \A b \in 1..Len(agg) :
           LET T     == DaysOfWeek(agg[b].date)
               first == CHOOSE t \in T : \A u \in T : t <= u
               last  == CHOOSE t \in T : \A u \in T : u <= t
           IN  /\ agg[b].Open = df_daily[first].Open
               /\ agg[b].Close = df_daily[last].Close
               /\ \E t \in T : agg[b].High = df_daily[t].High
               /\ \A t \in T : ~isna(df_daily[t].High)
                                /\ ~FGt(df_daily[t].High, agg[b].High)
               /\ \E t \in T : agg[b].Low = df_daily[t].Low
               /\ \A t \in T : ~isna(df_daily[t].Low)
                                /\ ~FGt(agg[b].Low, df_daily[t].Low)
               /\ FEq(agg[b].Volume, VolumeOf(T))

\* C8 as amended: one weekly bar for each Friday-ending week in which each
\* of open, high, low and close has a value on at least one day, and none for
\* any other week; its open is the first daily open that has a value, its
\* high and low the largest and smallest daily values, its close the last daily
\* close that has a value, its volume the sum of the daily volumes that have
\* a value; the week-end dates strictly increase.
C8_OneBarPerCompleteWeek ==
    wpc = "done" =>
      /\ {agg[b].date : b \in 1..Len(agg)} = CompleteWeeks
      /\ Len(agg) = Cardinality(CompleteWeeks)
      /\ AggDatesIncrease
      /\ \A b \in 1..Len(agg) :
           LET label == agg[b].date
               first == CHOOSE t \in Valued(label, "Open") :
                          \A u \in Valued(label, "Open") : t <= u
               last  == CHOOSE t \in Valued(label, "Close") :
                          \A u \in Valued(label, "Close") : u <= t
           IN  /\ agg[b].Open = df_daily[first].Open
               /\ agg[b].Close = df_daily[last].Close
               /\ \E t \in Valued(label, "High") : agg[b].High = df_daily[t].High
               /\ \A t \in Valued(label, "High") :
                    ~FGt(df_daily[t].High, agg[b].High)
               /\ \E t \in Valued(label, "Low") : agg[b].Low = df_daily[t].Low
               /\ \A t \in Valued(label, "Low") :
                    ~FGt(agg[b].Low, df_daily[t].Low)
               /\ FEq(agg[b].Volume, VolumeOf(Valued(label, "Volume")))

\* a week of two valued days is aggregated, an empty week is skipped and a
\* week whose only day has no close is dropped
C8_Witness ==
    /\ wpc = "done"
    /\ \E b \in 1..Len(agg) :
         \E t \in DaysOfWeek(agg[b].date), u \in DaysOfWeek(agg[b].date) :
           t # u /\ ~HasNaN(df_daily[t]) /\ ~HasNaN(df_daily[u])
    /\ \E label \in WeeksWithBars : label \notin CompleteWeeks
    /\ \E d \in Days : d % 7 = FRIDAY /\ d \notin WeeksWithBars
                       /\ \E a \in WeeksWithBars, c \in WeeksWithBars :
                            a < d /\ d < c

(***************************************************************************)
(* Claims about compute_indicators and is_weinstein_buy.                   *)
(***************************************************************************)
Rows == weekly_ind.rows

NRows == Len(weekly_ind.rows)

LastRow == weekly_ind.rows[Len(weekly_ind.rows)]

Computed == epc \in {"indicators", "decided"}

\* the closes of the BASE_LOOKBACK_WEEKS rows before the last row
BaseCloses ==
    {Rows[t].Close : t \in (NRows - BASE_LOOKBACK_WEEKS)..(NRows - 1)}

Breakout == \A c \in BaseCloses : FGt(LastRow.Close, c)

AboveTrend == ~isna(LastRow.SMA30) /\ FGt(LastRow.Close, LastRow.SMA30)

TrendRising ==
    ~isna(LastRow.SMA30_slope) /\ FGt(LastRow.SMA30_slope, Float(0))

\* the last row has a relative-strength slope, and it is > 0
RSRising ==
    /\ "RS_slope" \in weekly_ind.columns
    /\ ~isna(LastRow.RS_slope)
    /\ FGt(LastRow.RS_slope, Float(0))

\* C1: for a series of at least SMA_WEEKS + BASE_LOOKBACK_WEEKS rows computed
\* with a benchmark, the decision is passing exactly when, on the last row,
\* the close is above every close of the BASE_LOOKBACK_WEEKS rows before it,
\* the trend average is defined and below the close, the trend slope is
\* defined and > 0, the volume-spike flag is true, and relative strength is
\* not required or its slope is defined and > 0.
C1_PassIffAllConditions ==
    (epc = "decided" /\ NRows >= MinRows /\ benchmark_weekly # None) =>
      (result.meets <=>
         /\ Breakout
         /\ AboveTrend
         /\ TrendRising
         /\ LastRow.vol_spike
         /\ (~RS_REQUIRED \/ RSRising))

C1_Witness ==
    /\ epc = "decided"
    /\ NRows >= MinRows
    /\ benchmark_weekly # None
    /\ result.meets

\* C2 as stated: the snapshot is returned exactly with a passing decision.
C2_SnapshotIffPassing ==
    epc = "decided" => (result.details # None <=> result.meets)

\* C2 as amended: no snapshot is returned exactly when the series has fewer
\* than SMA_WEEKS + BASE_LOOKBACK_WEEKS rows; with that many rows the snapshot
\* is returned with a passing and with a not-passing decision alike.
C2_SnapshotIffEnoughRows ==
    epc = "decided" =>
      /\ result.details = None <=> NRows < MinRows
      /\ result.meets => result.details # None

\* a not-passing decision that carries the snapshot
C2_Witness ==
    /\ epc = "decided"
    /\ NRows >= MinRows
    /\ ~result.meets
    /\ result.details # None

\* C3 as stated: with relative strength required, a passing decision needs a
\* last row whose relative-strength slope is there, defined and > 0.
C3_PassNeedsRisingRS ==
    (epc = "decided" /\ RS_REQUIRED /\ result.meets) => RSRising

\* C3 as amended: with relative strength required and a series computed with
\* a benchmark (it has the RS_slope column), a passing decision needs a last
\* row whose slope is defined and > 0; a series computed without a benchmark
\* has no such column and is decided by the other four conditions alone.
C3_PassNeedsRisingRSWhenComputed ==
    (epc = "decided" /\ RS_REQUIRED /\ NRows >= MinRows) =>
      IF "RS_slope" \in weekly_ind.columns
      THEN result.meets => RSRising
      ELSE result.meets <=>
             (Breakout /\ AboveTrend /\ TrendRising /\ LastRow.vol_spike)

\* the other four conditions hold and the undefined slope alone decides
C3_Witness ==
    /\ epc = "decided"
    /\ NRows >= MinRows
    /\ "RS_slope" \in weekly_ind.columns
    /\ isna(LastRow.RS_slope)
    /\ Breakout /\ AboveTrend /\ TrendRising /\ LastRow.vol_spike
    /\ ~result.meets

\* the benchmark's bars dated before day d
BarsBefore(d) ==
    {j \in 1..Len(benchmark_weekly[1]) : benchmark_weekly[1][j].date < d}

\* C4: on every date of the instrument for which the benchmark has no bar,
\* the aligned benchmark close is the close of the benchmark's latest bar
\* before that date, whether or not the instrument has a bar on that bar's
\* date.
C4_LastKnownBenchmarkClose ==
    (Computed /\ benchmark_weekly # None) =>
      \A t \in 1..NRows :
        LET d      == Rows[t].date
            bench  == benchmark_weekly[1]
            before == BarsBefore(d)
        IN  ((\A j \in 1..Len(bench) : bench[j].date # d) /\ before # {}) =>
              Rows[t].B_Close =
                bench[CHOOSE j \in before : \A h \in before : h <= j].Close

\* C5: with fewer than SMA_WEEKS + BASE_LOOKBACK_WEEKS rows, none included,
\* the decision is not-passing, without snapshot and without exception; with
\* exactly that many rows the conditions are evaluated (the snapshot of the
\* evaluation is returned).
C5_InsufficientHistory ==
    epc = "decided" =>
      /\ NRows < MinRows =>
           (~result.raised /\ ~result.meets /\ result.details = None)
      /\ NRows = MinRows =>
           (~result.raised /\ result.details # None
            /\ result.details[1].close = LastRow.Close)

C5_Witness ==
    /\ epc = "decided"
    /\ NRows = MinRows - 1
    /\ ~result.raised /\ ~result.meets /\ result.details = None

\* the sum of the volumes of the rows lo..hi of the weekly frame
RECURSIVE VolumeSum(_, _)
VolumeSum(lo, hi) ==
    IF lo > hi THEN 0 ELSE weekly[hi].Volume[1] + VolumeSum(lo, hi - 1)

\* volume > 1.5 * (sum of the last VOL_AVG_WEEKS volumes / VOL_AVG_WEEKS)
AboveThreshold(t) ==
    2 * VOL_AVG_WEEKS * weekly[t].Volume[1]
      > 3 * VolumeSum(t - VOL_AVG_WEEKS + 1, t)

AtThreshold(t) ==
    2 * VOL_AVG_WEEKS * weekly[t].Volume[1]
      = 3 * VolumeSum(t - VOL_AVG_WEEKS + 1, t)

\* C9: on every row the volume-spike flag is a boolean, true exactly when
\* the row has VOL_AVG_WEEKS rows up to it and its volume is strictly above
\* 1.5 times their average volume: false at equality, false on the first
\* VOL_AVG_WEEKS - 1 rows.
C9_VolumeSpikeFlag ==
    Computed =>
      \A t \in 1..NRows :
        /\ Rows[t].vol_spike \in BOOLEAN
        /\ Rows[t].vol_spike <=> (t >= VOL_AVG_WEEKS /\ AboveThreshold(t))
        /\ isna(Rows[t].avg_vol30) <=> t < VOL_AVG_WEEKS

\* a positive volume exactly at the threshold, and a row above it
C9_Witness ==
    /\ epc = "indicators"
    /\ \E t \in VOL_AVG_WEEKS..NRows :
         weekly[t].Volume[1] > 0 /\ AtThreshold(t) /\ ~Rows[t].vol_spike
    /\ \E t \in 1..NRows : Rows[t].vol_spike

\* C10: with volumes >= 0, a row whose average volume is defined and zero
\* has a false volume-spike flag, and no decision is passing on a last row
\* whose average volume is zero.
C10_ZeroAverageVolume ==
    Computed =>
      /\ \A t \in 1..NRows :
           FEq(Rows[t].avg_vol30, Float(0)) => ~Rows[t].vol_spike
      /\ (epc = "decided" /\ NRows > 0 /\ FEq(LastRow.avg_vol30, Float(0)))
           => ~result.meets

\* the other four conditions hold on a last row of zero average volume
C10_Witness ==
    /\ epc = "decided"
    /\ NRows >= MinRows
    /\ FEq(LastRow.avg_vol30, Float(0))
    /\ Breakout /\ AboveTrend /\ TrendRising /\ RSRising
    /\ ~result.meets

(***************************************************************************)
(* Claims about run_screener.                                              *)
(***************************************************************************)
CandidateTickers == [j \in 1..Len(candidates) |-> candidates[j].ticker]

\* an upper bound of the number of steps the run has left
Remaining ==
    CASE pc = "batch"  -> 2 * (Len(tickers) - i) + Len(tickers) + 3
      [] pc = "ticker" -> 2 * (Len(tickers) - (i + k - 1)) + Len(tickers) + 2
      [] pc = "save"   -> Len(tickers) + 3
      [] pc = "caps"   -> Len(candidates) - k + 2
      [] pc = "sort"   -> 1
      [] OTHER         -> 0

\* the guards of the actions of NextRun past the benchmark download: the
\* run stands at a statement, and the position it reads exists
StepLeft ==
    \/ pc = "batch"
    \/ pc = "ticker" /\ k \in 1..Len(Batch(tickers, i))
    \/ pc = "save"
    \/ pc = "caps" /\ k \in 1..Len(candidates)
    \/ pc = "sort"

\* what holds at the end of the run
RunOutcome ==
    /\ \A t \in 1..Len(tickers) : visits[tickers[t]] = 1
    /\ CandidateTickers = SelectSeq(tickers, LAMBDA t : t \in passed)
    /\ skipped \cap passed = {}
    /\ skipped = {t \in 1..NumTickers : market[t] \in {"nodata", "raises"}}

\* C6: once the benchmark is there the run reaches its end: no step ends it
\* in an exception, whatever the provider gives or raises for a ticker or a
\* batch; every step leaves fewer steps to take and, short of the end,
\* another step can be taken; at the end the loop body has run exactly once
\* for every ticker, a ticker without data or with a failing request is
\* skipped and is no candidate, and the candidates are exactly the tickers
\* whose evaluation passed, in the order of the list.
C6_RunCompletes ==
    [][spy_weekly' # None =>
         /\ pc' # "abort"
         /\ spy_weekly # None => Remaining' < Remaining
         /\ Remaining' >= 0
         /\ pc' = "done" \/ StepLeft'
         /\ pc' = "done" => RunOutcome']_vars

\* the end of a run that skipped tickers, whose last batch download failed,
\* and that found a candidate in each batch
C6_Witness ==
    /\ pc = "done"
    /\ data = None
    /\ skipped # {}
    /\ \E t \in passed : t <= BATCH_SIZE
    /\ \E t \in passed : t > BATCH_SIZE

Table == csv[1]

\* C7: the table written is a permutation of the collected records, each
\* with its capitalization (unknown after a failed lookup); every record of
\* known capitalization is before every record of unknown capitalization
\* and the known capitalizations do not increase.
C7_TableSortedByCap ==
    (pc = "done" /\ csv # None) =>
      /\ Len(Table) = Len(candidates)
      /\ \A j \in 1..Len(candidates) :
           \E r \in 1..Len(Table) :
             /\ \A f \in DOMAIN candidates[j] : Table[r][f] = candidates[j][f]
             /\ Table[r].market_cap = CapCell(market_caps[candidates[j].ticker])
      /\ \A a \in 1..Len(Table), b \in 1..Len(Table) :
           a # b => Table[a].ticker # Table[b].ticker
      /\ \A r \in 1..Len(Table) :
           Table[r].ticker \in cap_failed => isna(Table[r].market_cap)
      /\ \A a \in 1..Len(Table), b \in 1..Len(Table) :
           (a < b /\ ~isna(Table[b].market_cap)) =>
             /\ ~isna(Table[a].market_cap)
             /\ ~FGt(Table[b].market_cap, Table[a].market_cap)

\* a table of three records that the ranking reordered: the first collected
\* has no capitalization after a failed lookup, the second a smaller one
\* than the third
C7_Witness ==
    /\ pc = "done"
    /\ csv # None
    /\ Len(candidates) = 3
    /\ candidates[1].ticker \in cap_failed
    /\ market_caps[candidates[2].ticker] = <<1>>
    /\ market_caps[candidates[3].ticker] = <<2>>
    /\ Table[1].ticker = candidates[3].ticker
    /\ Table[3].ticker = candidates[1].ticker

=============================================================================
